---- MODULE Spec2Model ----
(***************************************************************************)
(* Model of vigenere_cipher.py: the Vigenere matrix, encodeVigenere,       *)
(* decodeVigenere, hardToCrackPasswordGenerator and the command-line       *)
(* shell main().                                                           *)
(*                                                                         *)
(* A Python string is a sequence of one-character strings.  Python indices *)
(* are zero-based; the helpers At and PyIndex translate them to the        *)
(* one-based sequences of TLA+.  A call that raises is a result record     *)
(* with ok = FALSE, the exception's name, the source line that raises and  *)
(* the loop position reached; a call that returns is a record with         *)
(* ok = TRUE and the returned string.                                      *)
(***************************************************************************)
EXTENDS Integers, Sequences, FiniteSets

VARIABLES baseString, text, keyword, length, op, result, keystream,
          argv, opts, args, pc, status, printed, coreCalls

vars == <<baseString, text, keyword, length, op, result, keystream,
          argv, opts, args, pc, status, printed, coreCalls>>

coreVars == <<baseString, text, keyword, length, op, result, keystream>>
mainVars == <<argv, opts, args, pc, status, printed, coreCalls>>

(***************************************************************************)
(* Bounds of the explored inputs.                                          *)
(***************************************************************************)
MaxTextLen == 3
MaxKeyLen == 2

(***************************************************************************)
(* The alphabets.                                                          *)
(***************************************************************************)
BASE_STRING ==
  << "a", "b", "c", "d", "e", "f", "g", "h", "i", "j", "k", "l", "m",
     "n", "o", "p", "q", "r", "s", "t", "u", "v", "w", "x", "y", "z",
     "A", "B", "C", "D", "E", "F", "G", "H", "I", "J", "K", "L", "M",
     "N", "O", "P", "Q", "R", "S", "T", "U", "V", "W", "X", "Y", "Z",
     "#", "1", "2", "3", "4", "5", "6", "7", "8", "9", "0",
     "/", "\\", ".", ",", "!", "@", "#", "$", "%", "^", "&", "*", "(", ")" >>

NUM_CHARS == Len(BASE_STRING)

\* The 26 lowercase letters, the alphabet of the textbook example.
LowercaseAlphabet == SubSeq(BASE_STRING, 1, 26)

Alphabets == {BASE_STRING, LowercaseAlphabet}

(***************************************************************************)
(* Python helpers.                                                         *)
(***************************************************************************)
Min(S) == CHOOSE x \in S : \A y \in S : x <= y

\* s[i] for a zero-based i known to be in range.
At(s, i) == s[i + 1]

\* np.where(arr == c)[0]: the zero-based positions of arr holding c.
Where(arr, c) == {i \in 0..(Len(arr) - 1) : arr[i + 1] = c}

\* keyword * n
RECURSIVE Repeat(_, _)
Repeat(s, n) == IF n <= 0 THEN <<>> ELSE s \o Repeat(s, n - 1)

\* int(a / b) for non-negative a and positive b: true division, truncated.
IntDiv(a, b) == a \div b

\* The two IndexErrors: np.where(...)[0][0] on no match, and s[i] past the end.
NotFound == "IndexError: index 0 is out of bounds for axis 0 with size 0"
OutOfRange == "IndexError: index out of range"
ZeroDivision == "ZeroDivisionError: division by zero"

Return(s) == [ok |-> TRUE, out |-> s, err |-> "", line |-> 0, pos |-> -1]
Raise(e, l, p) == [ok |-> FALSE, out |-> <<>>, err |-> e, line |-> l, pos |-> p]

(***************************************************************************)
(* generateVigenereMatrix: row i is baseString rotated left by i.          *)
(***************************************************************************)
\* Rows rotated one place too far: row i starts at baseString[i + 1].
generateVigenereMatrixShifted(bs) ==
  LET numChars == Len(bs)
  IN [i \in 1..numChars |->
        SubSeq(bs, (i % numChars) + 1, numChars) \o SubSeq(bs, 1, i % numChars)]

generateVigenereMatrix(bs) ==
  LET numChars == Len(bs)
  IN [i \in 1..numChars |->
        LET firstPart == SubSeq(bs, i, numChars)
            remainingChars == SubSeq(bs, 1, i - 1)
        IN firstPart \o remainingChars]

\* matrix[:, 0] and matrix[0, :]
Column0(matrix) == [r \in 1..Len(matrix) |-> matrix[r][1]]
Row0(matrix) == matrix[1]

(***************************************************************************)
(* The keyword as extended at the head of encodeVigenere (lines 48-50) and *)
(* of decodeVigenere (lines 76-78).  An empty keyword shorter than the     *)
(* text divides by zero; the callers decide that case before they use      *)
(* these operators.                                                        *)
(***************************************************************************)
EncodeExtendShort(kw, n) ==
  IF Len(kw) < n THEN Repeat(kw, IntDiv(n, Len(kw))) ELSE kw

EncodeExtend(kw, n) ==
  IF Len(kw) < n
  THEN LET modLen == IntDiv(n, Len(kw)) IN Repeat(kw, modLen + 1)
  ELSE kw

DecodeExtend(kw, n) ==
  IF Len(kw) < n
  THEN LET modLen == IntDiv(n, Len(kw)) IN Repeat(kw, modLen + 1)
  ELSE kw

\* temp = ''.join([keyword[i] for i in range(0, len(text))])
TempFirst(kw, n) == [i \in 1..n |-> kw[1]]

Temp(kw, n) == [i \in 1..n |-> kw[i]]

(***************************************************************************)
(* encodeVigenere                                                          *)
(***************************************************************************)
RECURSIVE EncodeLoop(_, _, _, _, _)
EncodeLoop(txt, temp, matrix, i, encryptedText) ==
  IF i >= Len(txt) THEN Return(encryptedText)
  ELSE LET rows == Where(Column0(matrix), At(txt, i))
           cols == Where(Row0(matrix), At(temp, i))
       IN IF rows = {} THEN Raise(NotFound, 60, i)
          ELSE IF cols = {} THEN Raise(NotFound, 60, i)
          ELSE EncodeLoop(txt, temp, matrix, i + 1,
                          Append(encryptedText,
                                 matrix[Min(rows) + 1][Min(cols) + 1]))

encodeVigenere(txt, kw, bs) ==
  IF Len(kw) < Len(txt) /\ Len(kw) = 0 THEN Raise(ZeroDivision, 49, -1)
  ELSE LET kw2 == EncodeExtend(kw, Len(txt))
       IN IF Len(kw2) < Len(txt) THEN Raise(OutOfRange, 53, Len(kw2))
          ELSE EncodeLoop(txt, Temp(kw2, Len(txt)),
                          generateVigenereMatrix(bs), 0, <<>>)

\* The key symbols encodeVigenere consumes (temp), <<>> when it has none.
EncodeKeystream(txt, kw) ==
  IF Len(kw) < Len(txt) /\ Len(kw) = 0 THEN <<>>
  ELSE LET kw2 == EncodeExtend(kw, Len(txt))
       IN IF Len(kw2) < Len(txt) THEN <<>> ELSE Temp(kw2, Len(txt))

(***************************************************************************)
(* decodeVigenere                                                          *)
(***************************************************************************)
\* list(baseString)[v] with Python's negative indices.
PyIndexNoWrap(s, v) ==
  IF 0 <= v /\ v < Len(s) THEN Return(<<s[v + 1]>>)
  ELSE Raise(OutOfRange, 86, v)

PyIndex(s, v) ==
  IF 0 <= v /\ v < Len(s) THEN Return(<<s[v + 1]>>)
  ELSE IF v < 0 /\ v >= -Len(s) THEN Return(<<s[Len(s) + v + 1]>>)
  ELSE Raise(OutOfRange, 86, v)

RECURSIVE DecodeLoop(_, _, _, _, _)
DecodeLoop(encryptedText, kw, bs, i, decryptedText) ==
  IF i >= Len(encryptedText) THEN Return(decryptedText)
  ELSE LET textHits == Where(bs, At(encryptedText, i))
       IN IF textHits = {} THEN Raise(NotFound, 82, i)
          ELSE IF i >= Len(kw) THEN Raise(OutOfRange, 83, i)
          ELSE LET keyHits == Where(bs, At(kw, i))
               IN IF keyHits = {} THEN Raise(NotFound, 83, i)
                  ELSE LET valText == Min(textHits)
                           valKeyword == Min(keyHits)
                           valDecrypted == valText - valKeyword
                           sym == PyIndex(bs, valDecrypted)
                       IN IF ~sym.ok THEN Raise(sym.err, sym.line, i)
                          ELSE DecodeLoop(encryptedText, kw, bs, i + 1,
                                          decryptedText \o sym.out)

decodeVigenere(encryptedText, kw, bs) ==
  IF Len(kw) < Len(encryptedText) /\ Len(kw) = 0
  THEN Raise(ZeroDivision, 77, -1)
  ELSE DecodeLoop(encryptedText, DecodeExtend(kw, Len(encryptedText)),
                  bs, 0, <<>>)

\* The key symbols decodeVigenere can consume: keyword[i] for i < len(text).
DecodeKeystream(encryptedText, kw) ==
  IF Len(kw) < Len(encryptedText) /\ Len(kw) = 0 THEN <<>>
  ELSE LET kw2 == DecodeExtend(kw, Len(encryptedText))
       IN IF Len(kw2) < Len(encryptedText) THEN <<>>
          ELSE SubSeq(kw2, 1, Len(encryptedText))

(***************************************************************************)
(* hardToCrackPasswordGenerator.  random.sample(population, k) raises      *)
(* ValueError when k is negative or exceeds the population, and otherwise  *)
(* returns the symbols at k distinct positions in any order: Samples is    *)
(* the set of its possible outcomes.  The function's outcome is any member *)
(* of the set below.                                                       *)
(***************************************************************************)
SampleError == "ValueError: Sample larger than population or is negative"

\* s without the first occurrence of c.
RECURSIVE RemoveOne(_, _)
RemoveOne(s, c) ==
  IF s = <<>> THEN <<>>
  ELSE IF Head(s) = c THEN Tail(s)
  ELSE <<Head(s)>> \o RemoveOne(Tail(s), c)

\* The strings of k symbols taken from distinct positions of s, k <= len(s):
\* a first symbol of s, then a draw from what is left.
RECURSIVE Draws(_, _)
Draws(s, k) ==
  IF k = 0 THEN {<<>>}
  ELSE UNION {{<<c>> \o t : t \in Draws(RemoveOne(s, c), k - 1)} :
                c \in {s[i] : i \in 1..Len(s)}}

\* With replacement, as random.choices would draw.
DrawsWithReplacement(s, k) ==
  {[i \in 1..k |-> s[f[i]]] : f \in [1..k -> 1..Len(s)]}

SamplesWithReplacement(s, k) ==
  IF k < 0 THEN {Raise(SampleError, 96, -1)}
  ELSE {Return(t) : t \in DrawsWithReplacement(s, k)}

\* Truncating to the population instead of raising.
SamplesClamped(s, k) ==
  IF k < 0 THEN {Raise(SampleError, 96, -1)}
  ELSE {Return(t) : t \in Draws(s, IF k > Len(s) THEN Len(s) ELSE k)}

\* ''.join(random.sample(s, k))
Samples(s, k) ==
  IF k < 0 \/ k > Len(s) THEN {Raise(SampleError, 96, -1)}
  ELSE {Return(t) : t \in Draws(s, k)}

\* ''.join(random.sample(s, len(s)))
Shuffles(s) == Draws(s, Len(s))

\* Line 96, for the outcomes shuffledBase and shuffledKeyword of the two
\* shuffles of lines 93-94: the set of possible outcomes of the call.
hardToCrackPasswordGenerator(shuffledBase, shuffledKeyword, bs, len) ==
  LET encoded == encodeVigenere(shuffledBase, shuffledKeyword, bs)
  IN IF encoded.ok THEN Samples(encoded.out, len) ELSE {encoded}

\* The default of the length parameter.
DefaultLength == 10

(***************************************************************************)
(* Inputs of the cipher functions.                                         *)
(***************************************************************************)
BoundedSeq(S, n) == UNION {[1..k -> S] : k \in 0..n}

\* "b": in both alphabets; "@": only in BASE_STRING; "#": twice in
\* BASE_STRING, not in the lowercase alphabet; "?": in neither.
TestSyms == {"b", "@", "#", "?"}

Attack == <<"a","t","t","a","c","k","a","t","d","a","w","n">>
Lemon == <<"l","e","m","o","n">>
Lxfop == <<"l","x","f","o","p","v","e","f","r","n","h","r">>

Texts == BoundedSeq(TestSyms, MaxTextLen) \cup {Attack, Lxfop}
Keywords == BoundedSeq(TestSyms, MaxKeyLen) \cup {Lemon}

NoResult == Raise("", 0, -1)

MainIdle ==
  /\ argv = <<>> /\ opts = <<>> /\ args = <<>> /\ pc = "idle"
  /\ status = 0 /\ printed = <<>> /\ coreCalls = 0

Init ==
  /\ baseString \in Alphabets
  /\ text \in Texts
  /\ keyword \in Keywords
  /\ length = 10
  /\ op = "none"
  /\ result = NoResult
  /\ keystream = <<>>
  /\ MainIdle

\* encodeVigenere(text, keyword, baseString)
Encode ==
  /\ op = "none"
  /\ op' = "encode"
  /\ result' = encodeVigenere(text, keyword, baseString)
  /\ keystream' = EncodeKeystream(text, keyword)
  /\ UNCHANGED <<baseString, text, keyword, length, mainVars>>

\* decodeVigenere(text, keyword, baseString)
Decode ==
  /\ op = "none"
  /\ op' = "decode"
  /\ result' = decodeVigenere(text, keyword, baseString)
  /\ keystream' = DecodeKeystream(text, keyword)
  /\ UNCHANGED <<baseString, text, keyword, length, mainVars>>

\* decodeVigenere(encodeVigenere(text, keyword), keyword)
DecodeEncoded ==
  /\ op = "encode"
  /\ result.ok
  /\ op' = "roundtrip"
  /\ result' = decodeVigenere(result.out, keyword, baseString)
  /\ keystream' = DecodeKeystream(result.out, keyword)
  /\ UNCHANGED <<baseString, text, keyword, length, mainVars>>

Next == Encode \/ Decode \/ DecodeEncoded

Spec == Init /\ [][Next]_vars

(***************************************************************************)
(* The password generator called directly: text is its base argument.      *)
(***************************************************************************)
\* "b": in both alphabets; "@": in BASE_STRING only.
GenSyms == {"b", "@"}

\* Requested lengths: negative, 0, up to one past the longest base, the default.
Lengths == (-1..(MaxTextLen + 1)) \cup {DefaultLength}

InitGen ==
  /\ baseString \in Alphabets
  /\ text \in BoundedSeq(GenSyms, MaxTextLen)
  /\ keyword \in BoundedSeq(GenSyms, MaxKeyLen)
  /\ length = DefaultLength
  /\ op = "none"
  /\ result = NoResult
  /\ keystream = <<>>
  /\ MainIdle

\* hardToCrackPasswordGenerator(text, keyword, baseString, length=len)
Generate ==
  /\ op = "none"
  /\ \E len \in Lengths :
       /\ length' = len
       /\ \E shuffledBase \in Shuffles(text) :
            \E shuffledKeyword \in Shuffles(keyword) :
              result' \in hardToCrackPasswordGenerator(
                            shuffledBase, shuffledKeyword, baseString, len)
  /\ op' = "generate"
  /\ UNCHANGED <<baseString, text, keyword, keystream, mainVars>>

NextGen == Generate

GenSpec == InitGen /\ [][NextGen]_vars

(***************************************************************************)
(* The command line.  getopt.getopt(argv, "hd:e:g:", [help, decode,        *)
(* encode, generate]) is modelled for the tokens the model draws: short    *)
(* options alone in their token, the long option --help, and words.  It    *)
(* stops at the first token that is no option; -d, -e and -g take the next *)
(* token as their argument whatever it is.                                 *)
(***************************************************************************)
Str(o, a) == [o |-> o, arg |-> a]

OptH == <<"-", "h">>
OptD == <<"-", "d">>
OptE == <<"-", "e">>
OptG == <<"-", "g">>
LongHelp == <<"-", "-", "h", "e", "l", "p">>

ShortNoArg == {"h"}
ShortWithArg == {"d", "e", "g"}
LongNoArg == {<<"h", "e", "l", "p">>, <<"d", "e", "c", "o", "d", "e">>,
              <<"e", "n", "c", "o", "d", "e">>,
              <<"g", "e", "n", "e", "r", "a", "t", "e">>}

IsOption(tok) == Len(tok) >= 2 /\ tok[1] = "-"
IsLong(tok) == Len(tok) >= 2 /\ tok[1] = "-" /\ tok[2] = "-"

\* [err, opts, args]: the parse of the tokens left, appended to the options
\* found so far.
RECURSIVE GetoptFrom(_, _)
GetoptFrom(toks, found) ==
  IF toks = <<>> \/ ~IsOption(Head(toks))
  THEN [err |-> FALSE, opts |-> found, args |-> toks]
  ELSE LET tok == Head(toks)
           rest == Tail(toks)
       IN IF tok = <<"-", "-">>
          THEN [err |-> FALSE, opts |-> found, args |-> rest]
          ELSE IF IsLong(tok)
          THEN IF SubSeq(tok, 3, Len(tok)) \in LongNoArg
               THEN GetoptFrom(rest, Append(found, Str(tok, <<>>)))
               ELSE [err |-> TRUE, opts |-> <<>>, args |-> <<>>]
          ELSE IF Len(tok) = 2 /\ tok[2] \in ShortNoArg
          THEN GetoptFrom(rest, Append(found, Str(tok, <<>>)))
          ELSE IF Len(tok) = 2 /\ tok[2] \in ShortWithArg
          THEN IF rest = <<>>
               THEN [err |-> TRUE, opts |-> <<>>, args |-> <<>>]
               ELSE GetoptFrom(Tail(rest), Append(found, Str(tok, Head(rest))))
          ELSE [err |-> TRUE, opts |-> <<>>, args |-> <<>>]

Getopt(toks) == GetoptFrom(toks, <<>>)

\* int(s) for an optional sign followed by decimal digits; anything else
\* the model draws raises ValueError.
Digits == <<"0", "1", "2", "3", "4", "5", "6", "7", "8", "9">>

RECURSIVE DigitsValue(_, _)
DigitsValue(s, acc) ==
  IF s = <<>> THEN acc
  ELSE DigitsValue(Tail(s), 10 * acc + Min(Where(Digits, Head(s))))

IsDigits(s) == s # <<>> /\ \A i \in 1..Len(s) : Where(Digits, s[i]) # {}

PyInt(s) ==
  IF IsDigits(s) THEN [ok |-> TRUE, val |-> DigitsValue(s, 0)]
  ELSE IF Len(s) >= 2 /\ s[1] = "-" /\ IsDigits(Tail(s))
  THEN [ok |-> TRUE, val |-> 0 - DigitsValue(Tail(s), 0)]
  ELSE IF Len(s) >= 2 /\ s[1] = "+" /\ IsDigits(Tail(s))
  THEN [ok |-> TRUE, val |-> DigitsValue(Tail(s), 0)]
  ELSE [ok |-> FALSE, val |-> 0]

(***************************************************************************)
(* What main prints, one tag per print call.                               *)
(***************************************************************************)
MsgGetoptError == "str(err)"
MsgHelp == "HELP_MSG"
MsgWrongNumber == "Wrong number of arguments (too many or too few). Exiting."
MsgDecoded == "Decoded text"
MsgEncoded == "Encoded text"
MsgWrongAmount == "You didn't provide the correct amount of arguments."
MsgTwoArgs == "You provided 2 arguments: base and keyword."
MsgWrongBase == "Wrong BASE WORD length."
MsgThreeArgs == "You provided 3 arguments."
MsgLengthCorrect == "Length argument correct."
MsgWrongLength == "Wrong length. Assuming default length - 10"
MsgPassword == "Password generated successfully."

(***************************************************************************)
(* main().  pc: "start" before getopt, "loop" in the for loop over opts    *)
(* (opts holds the options not yet processed), "done" after the loop,      *)
(* "exit" after sys.exit(2), "crashed" after an exception left main        *)
(* uncaught (the interpreter prints a traceback and exits with status 1).  *)
(* coreCalls counts the calls of encodeVigenere, decodeVigenere and        *)
(* hardToCrackPasswordGenerator made by main.                              *)
(***************************************************************************)
Say(msgs) == printed' = printed \o msgs

SysExit(msgs) ==
  /\ Say(msgs)
  /\ pc' = "exit"
  /\ status' = 2
  /\ UNCHANGED <<opts, args, coreCalls, coreVars>>

\* The call named name with arguments t, k, len has ended with r.
CoreReturned(name, t, k, len, r, before, after) ==
  /\ op' = name
  /\ text' = t
  /\ keyword' = k
  /\ length' = len
  /\ result' = r
  /\ coreCalls' = coreCalls + 1
  /\ UNCHANGED <<baseString, keystream, args>>
  /\ IF r.ok
     THEN /\ Say(before \o after)
          /\ opts' = Tail(opts)
          /\ UNCHANGED <<pc, status>>
     ELSE /\ Say(before)
          /\ pc' = "crashed"
          /\ status' = 1
          /\ UNCHANGED opts

\* Lines 113-117.
ParseArgs ==
  /\ pc = "start"
  /\ LET parsed == Getopt(argv)
     IN IF parsed.err
        THEN SysExit(<<MsgGetoptError>>)
        ELSE /\ opts' = parsed.opts
             /\ args' = parsed.args
             /\ pc' = "loop"
             /\ UNCHANGED <<status, printed, coreCalls, coreVars>>
  /\ UNCHANGED argv

\* Lines 120-121.
OptionHelp ==
  /\ pc = "loop" /\ opts # <<>>
  /\ Head(opts).o = OptH \/ Head(opts).o = <<>>
  /\ Say(<<MsgHelp>>)
  /\ opts' = Tail(opts)
  /\ UNCHANGED <<argv, args, pc, status, coreCalls, coreVars>>

\* Lines 123-132.
OptionDecode ==
  /\ pc = "loop" /\ opts # <<>>
  /\ Head(opts).o = OptD
  /\ IF Len(args) # 1
     THEN SysExit(<<MsgWrongNumber>>)
     ELSE LET encoded == Head(opts).arg
              kw == args[1]
          IN CoreReturned("decode", encoded, kw, length,
                          decodeVigenere(encoded, kw, BASE_STRING),
                          <<>>, <<MsgDecoded>>)
  /\ UNCHANGED argv

\* Lines 134-143 with the count test weakened to "too few".
OptionEncodeTooFewOnly ==
  /\ pc = "loop" /\ opts # <<>>
  /\ Head(opts).o = OptE
  /\ IF Len(args) < 1
     THEN SysExit(<<MsgWrongNumber>>)
     ELSE LET base == Head(opts).arg
              kw == args[1]
          IN CoreReturned("encode", base, kw, length,
                          encodeVigenere(base, kw, BASE_STRING),
                          <<>>, <<MsgEncoded>>)
  /\ UNCHANGED argv

\* Lines 134-143.
OptionEncode ==
  /\ pc = "loop" /\ opts # <<>>
  /\ Head(opts).o = OptE
  /\ IF Len(args) # 1
     THEN SysExit(<<MsgWrongNumber>>)
     ELSE LET base == Head(opts).arg
              kw == args[1]
          IN CoreReturned("encode", base, kw, length,
                          encodeVigenere(base, kw, BASE_STRING),
                          <<>>, <<MsgEncoded>>)
  /\ UNCHANGED argv

\* Lines 148-185.
OptionGenerate ==
  /\ pc = "loop" /\ opts # <<>>
  /\ Head(opts).o = OptG
  /\ LET generatorArgs == <<Head(opts).arg>> \o args
     IN IF Len(generatorArgs) < 2 \/ Len(generatorArgs) > 3
        THEN SysExit(<<MsgWrongAmount>>)
        ELSE IF Len(generatorArgs) = 2
        THEN IF Len(generatorArgs[1]) > Len(generatorArgs[2])
             THEN SysExit(<<MsgTwoArgs, MsgWrongBase>>)
             ELSE \E shuffledBase \in Shuffles(generatorArgs[1]) :
                  \E shuffledKeyword \in Shuffles(generatorArgs[2]) :
                  \E r \in hardToCrackPasswordGenerator(
                             shuffledBase, shuffledKeyword,
                             BASE_STRING, DefaultLength) :
                    CoreReturned("generate", generatorArgs[1],
                                 generatorArgs[2], DefaultLength, r,
                                 <<MsgTwoArgs>>, <<MsgPassword>>)
        ELSE LET parsed == PyInt(generatorArgs[3])
                 len == IF parsed.ok THEN parsed.val ELSE DefaultLength
                 said == IF parsed.ok THEN MsgLengthCorrect ELSE MsgWrongLength
             IN \E shuffledBase \in Shuffles(generatorArgs[1]) :
                \E shuffledKeyword \in Shuffles(generatorArgs[2]) :
                \E r \in hardToCrackPasswordGenerator(
                           shuffledBase, shuffledKeyword, BASE_STRING, len) :
                  CoreReturned("generate", generatorArgs[1],
                               generatorArgs[2], len, r,
                               <<MsgThreeArgs, said>>, <<MsgPassword>>)
  /\ UNCHANGED argv

\* An option none of the branches names (a long option): nothing happens.
OptionIgnored ==
  /\ pc = "loop" /\ opts # <<>>
  /\ Head(opts).o \notin {OptH, <<>>, OptD, OptE, OptG}
  /\ opts' = Tail(opts)
  /\ UNCHANGED <<argv, args, pc, status, printed, coreCalls, coreVars>>

\* The loop is over: main returns and the process ends with status 0.
MainReturns ==
  /\ pc = "loop" /\ opts = <<>>
  /\ pc' = "done"
  /\ UNCHANGED <<argv, opts, args, status, printed, coreCalls, coreVars>>

(***************************************************************************)
(* Command lines: up to MaxOpts options, each with its argument, followed  *)
(* by up to MaxPos positional words; and a few longer ones.                *)
(***************************************************************************)
MaxOpts == 2
MaxPos == 3

TenB == <<"b", "b", "b", "b", "b", "b", "b", "b", "b", "b">>

OptWords == {<<"b">>, <<"?">>}
PosWords == {<<"b">>, <<"?">>, <<>>, <<"1">>}

OptGroups ==
  {<<OptH>>} \cup {<<o, w>> : o \in {OptD, OptE, OptG}, w \in OptWords}

RECURSIVE Flatten(_)
Flatten(groups) ==
  IF groups = <<>> THEN <<>> ELSE Head(groups) \o Flatten(Tail(groups))

CommandLines ==
  {Flatten(g) \o p : g \in BoundedSeq(OptGroups, MaxOpts),
                     p \in BoundedSeq(PosWords, MaxPos)}
  \cup {<<LongHelp>>, <<LongHelp, OptE, <<"b">>, <<"b">>>>,
        <<OptE>>, <<OptG, TenB, TenB>>, <<OptG, TenB, TenB, <<"1", "0">>>>,
        <<OptG, <<"b", "@">>, <<"b">>, <<"2">>>>,
        <<OptG, <<"b">>, <<"b">>, <<"-", "1">>>>, <<<<"-", "1">>>>,
        <<OptG, <<"b">>, <<"b">>, <<"2">>>>, <<OptG, <<>>, <<"b">>, <<"0">>>>,
        <<OptE, Attack, Lemon>>, <<OptD, Lxfop, Lemon>>}

InitMain ==
  /\ argv \in CommandLines
  /\ opts = <<>> /\ args = <<>> /\ pc = "start"
  /\ status = 0 /\ printed = <<>> /\ coreCalls = 0
  /\ baseString = BASE_STRING
  /\ text = <<>> /\ keyword = <<>> /\ length = DefaultLength
  /\ op = "none"
  /\ result = NoResult
  /\ keystream = <<>>

NextMain ==
  \/ ParseArgs
  \/ OptionHelp
  \/ OptionDecode
  \/ OptionEncode
  \/ OptionGenerate
  \/ OptionIgnored
  \/ MainReturns

MainSpec == InitMain /\ [][NextMain]_vars

(***************************************************************************)
(* Reference definitions the properties are stated with (the spec's        *)
(* indexOf / symbolAt and its keystream), independent of the code's        *)
(* matrix, keyword multiplication and negative indexing.                   *)
(***************************************************************************)
Symbols(bs) == {bs[i] : i \in 1..Len(bs)}

InAlphabet(s, bs) == \A i \in 1..Len(s) : s[i] \in Symbols(bs)

\* indexOf: the zero-based position of the first occurrence.
IndexOf(bs, c) ==
  CHOOSE i \in 0..(Len(bs) - 1) :
    bs[i + 1] = c /\ \A j \in 0..(i - 1) : bs[j + 1] # c

SymbolAt(bs, n) == bs[n + 1]

\* The i-th keystream symbol (zero-based) of a non-empty keyword.
KeyAt(kw, i) == kw[(i % Len(kw)) + 1]

\* The zero-based positions where text or the keystream leaves the alphabet.
Offending(txt, kw, bs) ==
  {i \in 0..(Len(txt) - 1) :
     \/ txt[i + 1] \notin Symbols(bs)
     \/ kw # <<>> /\ KeyAt(kw, i) \notin Symbols(bs)}

(***************************************************************************)
(* Properties of encodeVigenere and decodeVigenere, checked under Spec.    *)
(***************************************************************************)

\* C1: round trip.  For every text and every non-empty keyword over the
\* alphabet in use, encodeVigenere succeeds and decodeVigenere of its
\* result with the same keyword returns exactly the text, whatever the
\* length relation between keyword and text.
RoundTrip ==
  (keyword # <<>> /\ InAlphabet(text, baseString)
     /\ InAlphabet(keyword, baseString))
  => /\ op = "encode" => result.ok
     /\ op = "roundtrip" => (result.ok /\ result.out = text)

AlphabetDuplicateFree ==
  baseString = BASE_STRING
  => \A i \in 0..(NUM_CHARS - 1) :
       Min(Where(baseString, At(baseString, i))) = i

DecodeIsModularSubtraction ==
  (op = "decode" /\ keyword # <<>> /\ InAlphabet(text, baseString)
     /\ InAlphabet(keyword, baseString))
  => LET N == Len(baseString)
     IN /\ result.ok
        /\ Len(result.out) = Len(text)
        /\ \A i \in 0..(Len(text) - 1) :
             At(result.out, i) =
               SymbolAt(baseString,
                        (((IndexOf(baseString, At(text, i))
                             - IndexOf(baseString, KeyAt(keyword, i))) % N)
                           + N) % N)
        /\ (baseString = LowercaseAlphabet /\ text = Lxfop /\ keyword = Lemon)
             => result.out = Attack

\* C9 witness: a symbol has been decoded whose index difference is
\* negative ("b" - "@" = 1 - 68), on a text that no encode produced here.
DecodedNegativeDifference ==
  /\ op = "decode"
  /\ baseString = BASE_STRING
  /\ text = <<"b", "@">>
  /\ keyword = <<"@", "b">>
  /\ result.ok
  /\ result.out = <<"k", "!">>

PasswordLengthExact ==
  (op = "generate" /\ text # <<>> /\ keyword # <<>> /\ length >= 0
     /\ InAlphabet(text, baseString) /\ InAlphabet(keyword, baseString))
  => /\ length <= Len(text) => (result.ok /\ Len(result.out) = length)
     /\ length > Len(text) => (~result.ok /\ result.out = <<>>)

\* C3 witness: a password of 2 symbols has been drawn from a base of 3.
PasswordShorterThanBase ==
  /\ op = "generate"
  /\ Len(text) = 3
  /\ keyword # <<>>
  /\ InAlphabet(text, baseString) /\ InAlphabet(keyword, baseString)
  /\ length = 2
  /\ result.ok
  /\ Len(result.out) = 2

Violates(opt, positional) ==
  \/ opt.o \in {OptD, OptE} /\ Len(positional) # 1
  \/ opt.o = OptG /\ (1 + Len(positional) < 2 \/ 1 + Len(positional) > 3)

CountDiagnostics == {MsgWrongNumber, MsgWrongAmount}

\* The command line parses and carries an option whose count is violated.
HasCountViolation(toks) ==
  LET parsed == Getopt(toks)
  IN /\ ~parsed.err
     /\ \E i \in 1..Len(parsed.opts) : Violates(parsed.opts[i], parsed.args)

Ended == pc \in {"done", "exit", "crashed"}

\* C5: no core error propagates uncaught out of main: every run ends
\* normally or by a controlled exit with a printed message and a non-zero
\* status.
NoUncaughtCoreError ==
  /\ pc # "crashed"
  /\ pc = "exit" => (status # 0 /\ printed # <<>>)

\* C6 as stated: whenever main exits on the violated argument count of an
\* option, on a command line with one option or several, it does so with
\* status 2 and the core has not been invoked.
CountViolationNeverInvokesCore ==
  (pc = "exit" /\ printed # <<>>
     /\ printed[Len(printed)] \in CountDiagnostics)
  => (status = 2 /\ coreCalls = 0)

\* C6 as amended: whenever the loop reaches an option whose argument count
\* is violated, main prints the diagnostic and exits with status 2 without
\* invoking the core for that option or a later one; on a command line
\* with a single option the core is never invoked.  Options before it on
\* the command line have been processed already.
CountViolationExitsAtOption ==
  /\ [][(pc = "loop" /\ opts # <<>> /\ Violates(Head(opts), args))
          => /\ pc' = "exit"
             /\ status' = 2
             /\ printed' # printed
             /\ printed'[Len(printed')] \in CountDiagnostics
             /\ coreCalls' = coreCalls]_vars
  /\ [][pc = "exit" => (pc' = "exit" /\ coreCalls' = coreCalls)]_vars
  /\ []((Ended /\ HasCountViolation(argv) /\ Len(Getopt(argv).opts) = 1)
          => (pc = "exit" /\ status = 2 /\ coreCalls = 0))

\* C6 witness: main has exited with status 2 on the count violation of a
\* later option, after an earlier option invoked the core.
CountViolationAfterCoreCall ==
  /\ pc = "exit"
  /\ status = 2
  /\ printed # <<>>
  /\ printed[Len(printed)] = MsgWrongNumber
  /\ coreCalls = 1
  /\ Len(Getopt(argv).opts) = 2

====
